---- MODULE Spec2Model ----
(***************************************************************************)
(* Model of web/js/DynamicWorkflowEditor.js: the "Refresh Inputs" button   *)
(* of DynamicWorkflowEditorNode.  The handler updateDynamicInputs is an    *)
(* async function; JavaScript runs each stretch of code between two awaits *)
(* to completion, so every action below is one such stretch.               *)
(*                                                                         *)
(* Strings whose characters matter (widget names, node ids, keys, the path)*)
(* are sequences of one-character strings.  The two emoji of the button    *)
(* labels are written as the one-element tokens "<memo>" and "<hourglass>".*)
(***************************************************************************)
EXTENDS Integers, Sequences, FiniteSets, TLC

VARIABLES
    transport,            \* "fetch" (lines 21-37) or "runNode" (lines 109-114)
    workflowPathWidget,   \* [found, value]: the object find() returned, line 16
    refreshButtonWidget,  \* the button's name (its label), lines 19, 45, 53, 78
    widgets,              \* this.widgets
    inputs,               \* this.inputs
    awaitingFetch,        \* invocations suspended at `await fetch` / `await runNode`
    awaitingJson,         \* invocations suspended at `await response.json()`
    lastStep              \* what the most recent stretch of code did (history)

vars == <<transport, workflowPathWidget, refreshButtonWidget, widgets, inputs,
          awaitingFetch, awaitingJson, lastStep>>

-----------------------------------------------------------------------------
(* Bounds *)

\* refresh invocations that may be suspended at an await at the same time
MaxInFlight == 2
\* fields (node id, key) of one response, counted over all its nodes
MaxFields == 2

-----------------------------------------------------------------------------
(* Strings *)

IdleName == <<"<memo>", " ", "R", "e", "f", "r", "e", "s", "h", " ",
              "I", "n", "p", "u", "t", "s">>
LoadingName == <<"<hourglass>", " ", "L", "o", "a", "d", "i", "n", "g",
                 ".", ".", ".">>
DynPrefix == <<"d", "y", "n", "_">>
WorkflowPathName == <<"w", "o", "r", "k", "f", "l", "o", "w", "_",
                      "p", "a", "t", "h">>

MissingPathAlert == "alert: Please provide a valid workflow path."
LoadErrorAlert == "alert: Error loading workflow JSON. See console."

\* String.prototype.startsWith
StartsWith(s, p) == Len(s) >= Len(p) /\ SubSeq(s, 1, Len(p)) = p

-----------------------------------------------------------------------------
(* JavaScript values *)

JSValue(tag, num, den, str, bool) ==
    [tag |-> tag, num |-> num, den |-> den, str |-> str, bool |-> bool]
\* the number num/den
JSNumber(n, d) == JSValue("number", n, d, <<>>, FALSE)
JSString(s) == JSValue("string", 0, 1, s, FALSE)
JSBoolean(b) == JSValue("boolean", 0, 1, <<>>, b)
JSNull == JSValue("null", 0, 1, <<>>, FALSE)
JSObject == JSValue("object", 0, 1, <<>>, FALSE)
JSArray == JSValue("array", 0, 1, <<>>, FALSE)
JSUndefined == JSValue("undefined", 0, 1, <<>>, FALSE)

\* the typeof operator
TypeOf(v) ==
    CASE v.tag = "number" -> "number"
      [] v.tag = "string" -> "string"
      [] v.tag = "boolean" -> "boolean"
      [] v.tag = "undefined" -> "undefined"
      [] OTHER -> "object"

\* Number.isInteger
IsInteger(v) == v.tag = "number" /\ v.num % v.den = 0

\* truthiness of the values a path can take (a string)
Truthy(s) == s # <<>>

-----------------------------------------------------------------------------
(* The response of the data source: node id -> { inputs: { key: value } }.  *)
(* An object is the sequence of its properties in for-in order.            *)

NodeIds == {<<"a">>, <<"a", "_", "b">>}
Keys == {<<"c">>, <<"b", "_", "c">>}
Values == {JSNumber(3, 1), JSNumber(3, 2), JSBoolean(TRUE), JSString(<<"x">>),
           JSNull, JSObject, JSArray}

\* the value of a node's `inputs` property
InputsUndefined == [tag |-> "undefined", entries |-> <<>>]
InputsNull == [tag |-> "null", entries |-> <<>>]
InputsObject(entries) == [tag |-> "object", entries |-> entries]

\* the value of one node entry of the response
NullNode == [tag |-> "null", inputs |-> InputsUndefined]
NumberNode == [tag |-> "number", inputs |-> InputsUndefined]
ObjectNode(ins) == [tag |-> "object", inputs |-> ins]

\* the response itself
NullResponse == [tag |-> "null", nodes |-> <<>>]
ObjectResponse(nodes) == [tag |-> "object", nodes |-> nodes]
NoResponse == [tag |-> "undefined", nodes |-> <<>>]

\* an object has each property once
DistinctKeys(s) == \A i, j \in DOMAIN s : i # j => s[i].key # s[j].key
DistinctIds(s) == \A i, j \in DOMAIN s : i # j => s[i].id # s[j].id

InputObjects ==
    UNION { { InputsObject(s) : s \in { t \in [1..n -> [key : Keys, value : Values]] :
                                          DistinctKeys(t) } } :
            n \in 0..Cardinality(Keys) }
Nodes == {NullNode, NumberNode, ObjectNode(InputsUndefined), ObjectNode(InputsNull)}
         \cup { ObjectNode(i) : i \in InputObjects }
\* the number of fields of the nodes n.. of a response
RECURSIVE FieldCount(_, _)
FieldCount(nodes, n) ==
    IF n > Len(nodes) THEN 0
    ELSE Len(nodes[n].node.inputs.entries) + FieldCount(nodes, n + 1)
Responses ==
    {NullResponse} \cup
    UNION { { ObjectResponse(s) : s \in { t \in [1..n -> [id : NodeIds, node : Nodes]] :
                                            /\ DistinctIds(t)
                                            /\ FieldCount(t, 1) <= MaxFields } } :
            n \in 0..Cardinality(NodeIds) }

Entry(k, v) == [key |-> k, value |-> v]
NodeEntry(id, node) == [id |-> id, node |-> node]
OneInput(k, v) == ObjectNode(InputsObject(<<Entry(k, v)>>))

\* the responses the refresh life cycle is explored with
SampleResponses ==
    { NullResponse,
      ObjectResponse(<<>>),
      ObjectResponse(<<NodeEntry(<<"a">>, OneInput(<<"c">>, JSNumber(3, 1)))>>),
      ObjectResponse(<<NodeEntry(<<"a">>, ObjectNode(InputsUndefined))>>),
      ObjectResponse(<<NodeEntry(<<"a">>, OneInput(<<"c">>, JSNull))>>),
      ObjectResponse(<<NodeEntry(<<"a", "_", "b">>, OneInput(<<"c">>, JSString(<<"x">>))),
                       NodeEntry(<<"a">>, OneInput(<<"b", "_", "c">>, JSNumber(3, 2)))>>),
      ObjectResponse(<<NodeEntry(<<"a">>, NullNode)>>),
      ObjectResponse(<<NodeEntry(<<"a">>, OneInput(<<"c">>, JSBoolean(TRUE))),
                       NodeEntry(<<"a", "_", "b">>, NullNode)>>),
      ObjectResponse(<<NodeEntry(<<"a">>, NullNode),
                       NodeEntry(<<"a", "_", "b">>, OneInput(<<"c">>, JSBoolean(TRUE)))>>) }

-----------------------------------------------------------------------------
(* Widgets *)

Widget(type, name, value) == [type |-> type, name |-> name, value |-> value]

\* the entry of this.widgets that is the refresh button; its name is the
\* variable refreshButtonWidget (the list holds the object, not a copy)
ButtonEntry == Widget("button", <<>>, JSUndefined)
\* the entry that is the workflow_path widget; its value is
\* workflowPathWidget.value
PathEntry == Widget("STRING", WorkflowPathName, JSUndefined)

\* w.name of an entry of this.widgets
NameOf(w) == IF w = ButtonEntry THEN refreshButtonWidget ELSE w.name

\* this.addWidget(type, name, value)
AddWidget(ws, type, name, value) == Append(ws, Widget(type, name, value))

IsDynamicWidget(w) == StartsWith(NameOf(w), DynPrefix)
IsDynamicInput(i) == StartsWith(i.name, DynPrefix)
NotDynamicWidget(w) == ~IsDynamicWidget(w)
NotDynamicInput(i) == ~IsDynamicInput(i)

\* variant: the earlier dynamic widgets are kept
ClearDynamicWidgets_KeepAll(ws) == ws

\* lines 58 / 135
ClearDynamicWidgets(ws) == SelectSeq(ws, NotDynamicWidget)
\* lines 59 / 136
ClearDynamicInputs(is) == SelectSeq(is, NotDynamicInput)

\* variant: booleans are not taken for primitive fields
IsPrimitive_NoBoolean(value) == TypeOf(value) \in {"string", "number"}

\* lines 67 / 144
IsPrimitive(value) == TypeOf(value) \in {"string", "number", "boolean"}

\* variant: the key is left out of the name
WidgetName_NoKey(nodeId, key) == DynPrefix \o nodeId \o <<"_">>

\* lines 68 / 145
WidgetName(nodeId, key) == DynPrefix \o nodeId \o <<"_">> \o key

\* variant: every number is an INT
WidgetType_NumbersAreInt(value) ==
    IF TypeOf(value) = "boolean" THEN "BOOLEAN"
    ELSE IF TypeOf(value) = "number" THEN "INT" ELSE "STRING"

\* lines 69-71 / 146-148
WidgetType(value) ==
    LET t0 == "STRING"
        t1 == IF TypeOf(value) = "number"
              THEN (IF IsInteger(value) THEN "INT" ELSE "FLOAT")
              ELSE t0
        t2 == IF TypeOf(value) = "boolean" THEN "BOOLEAN" ELSE t1
    IN t2

\* node.inputs || {}   (node is not null), lines 64 / 141
InputsOrEmpty(node) ==
    IF node.tag = "object" /\ node.inputs.tag = "object"
    THEN node.inputs.entries
    ELSE <<>>

\* the loop state: the widget list, what was done so far, and whether a
\* TypeError ended the loop
LoopState(ws, effects, threw) ==
    [widgets |-> ws, effects |-> effects, threw |-> threw]

\* lines 65-75 / 142-152: for (const key in inputs), from entry k on
RECURSIVE ForKeys(_, _, _, _)
ForKeys(nodeId, entries, k, st) ==
    IF k > Len(entries) THEN st
    ELSE LET key == entries[k].key
             value == entries[k].value
         IN IF IsPrimitive(value)
            THEN ForKeys(nodeId, entries, k + 1,
                         LoopState(AddWidget(st.widgets, WidgetType(value),
                                             WidgetName(nodeId, key), value),
                                   Append(st.effects, "addWidget"),
                                   FALSE))
            ELSE ForKeys(nodeId, entries, k + 1, st)

\* lines 62-76 / 139-153: for (const nodeId in workflowJSON), from entry n on;
\* `node.inputs` of a null node throws a TypeError
RECURSIVE ForNodes(_, _, _)
ForNodes(nodes, n, st) ==
    IF n > Len(nodes) THEN st
    ELSE LET nodeId == nodes[n].id
             node == nodes[n].node
         IN IF node.tag = "null"
            THEN LoopState(st.widgets, Append(st.effects, "TypeError"), TRUE)
            ELSE ForNodes(nodes, n + 1, ForKeys(nodeId, InputsOrEmpty(node), 1, st))

\* lines 57-76 / 134-153
Rebuild(ws, workflowJSON) ==
    ForNodes(workflowJSON.nodes, 1,
             LoopState(ClearDynamicWidgets(ws),
                       <<"widgets.filter", "inputs.filter">>, FALSE))

-----------------------------------------------------------------------------
(* State after onNodeCreated, lines 10-19 and 84 / 98-107 and 161 *)

\* cleared: how many widgets and inputs the two filters removed
Step(outcome, effects, response, cleared) ==
    [outcome |-> outcome, effects |-> effects, response |-> response,
     cleared |-> cleared]

PathValues == {<<>>, <<"/", "w">>}
\* a widget and an input of the node definition that carry the reserved prefix
StaleWidget == Widget("STRING", <<"d", "y", "n", "_", "o", "l", "d">>, JSString(<<"x">>))
StaleInput == [name |-> <<"d", "y", "n", "_", "o", "l", "d">>]
ImageInput == [name |-> <<"i", "m", "a", "g", "e">>]

\* this.widgets as the node definition made it, with or without workflow_path
DefinedWidgets(found) ==
    IF found THEN {<<PathEntry>>, <<StaleWidget, PathEntry>>}
    ELSE {<<>>, <<StaleWidget>>}
DefinedInputs == {<<>>, <<ImageInput>>, <<StaleInput, ImageInput>>}

Init ==
    /\ transport \in {"fetch", "runNode"}
    /\ workflowPathWidget \in
         {[found |-> FALSE, value |-> <<>>]}
         \cup {[found |-> TRUE, value |-> v] : v \in PathValues}
    /\ refreshButtonWidget = IdleName
    /\ widgets \in {AddWidget(ws, ButtonEntry.type, ButtonEntry.name, ButtonEntry.value) :
                      ws \in DefinedWidgets(workflowPathWidget.found)}
    /\ inputs \in DefinedInputs
    /\ awaitingFetch = 0
    /\ awaitingJson = 0
    /\ lastStep = Step("created", <<>>, NoResponse, 0)

-----------------------------------------------------------------------------
(* Actions *)

InFlight == awaitingFetch + awaitingJson

\* the user edits the workflow_path widget
SetPathValue(v) ==
    /\ workflowPathWidget.found
    /\ workflowPathWidget.value # v
    /\ workflowPathWidget' = [workflowPathWidget EXCEPT !.value = v]
    /\ lastStep' = Step("edited", <<>>, NoResponse, 0)
    /\ UNCHANGED <<transport, refreshButtonWidget, widgets, inputs,
                   awaitingFetch, awaitingJson>>

\* variant: only the widget's presence is tested, not its value
PathMissing_WidgetOnly == ~workflowPathWidget.found

\* lines 40 / 117
PathMissing == ~workflowPathWidget.found \/ ~Truthy(workflowPathWidget.value)

\* the data-source call fetchWorkflowJSON makes before it suspends
DataSourceCall == IF transport = "fetch" THEN "fetch" ELSE "graph.runNode"

\* lines 39-49 / 116-126: the button's callback, up to its first await
UpdateDynamicInputs ==
    IF PathMissing
    THEN /\ lastStep' = Step("missingPath", <<MissingPathAlert>>, NoResponse, 0)
         /\ UNCHANGED <<transport, workflowPathWidget, refreshButtonWidget, widgets,
                        inputs, awaitingFetch, awaitingJson>>
    ELSE /\ InFlight < MaxInFlight
         /\ refreshButtonWidget' = LoadingName
         /\ awaitingFetch' = awaitingFetch + 1
         /\ lastStep' = Step("loading", <<"name = loading", DataSourceCall>>, NoResponse, 0)
         /\ UNCHANGED <<transport, workflowPathWidget, widgets, inputs, awaitingJson>>

\* variant: the catch block clears the dynamic widgets before it returns
Catch_ClearsWidgets ==
    /\ refreshButtonWidget' = IdleName
    /\ widgets' = ClearDynamicWidgets(widgets)
    /\ lastStep' = Step("fetchFailed",
                        <<"console.error", LoadErrorAlert, "name = idle">>, NoResponse, 0)
    /\ UNCHANGED <<transport, workflowPathWidget, inputs>>

\* lines 50-55 / 127-132: the catch block
Catch ==
    /\ refreshButtonWidget' = IdleName
    /\ lastStep' = Step("fetchFailed",
                        <<"console.error", LoadErrorAlert, "name = idle">>, NoResponse, 0)
    /\ UNCHANGED <<transport, workflowPathWidget, widgets, inputs>>

\* variant: the canvas is marked dirty before the name is restored
AfterLoop_DirtyFirst == <<"setDirtyCanvas", "name = idle", "console.debug">>

\* lines 78-80 / 155-157: what follows the loop
AfterLoop == <<"name = idle", "setDirtyCanvas", "console.debug">>

\* lines 57-80 / 134-157: the code after the try statement
ProcessWorkflowJSON(workflowJSON) ==
    LET st == Rebuild(widgets, workflowJSON)
        cleared == (Len(widgets) - Len(ClearDynamicWidgets(widgets)))
                   + (Len(inputs) - Len(ClearDynamicInputs(inputs)))
    IN /\ widgets' = st.widgets
       /\ inputs' = ClearDynamicInputs(inputs)
       /\ IF st.threw
          THEN /\ lastStep' = Step("threw", st.effects, workflowJSON, cleared)
               /\ UNCHANGED refreshButtonWidget
          ELSE /\ refreshButtonWidget' = IdleName
               /\ lastStep' = Step("success", st.effects \o AfterLoop,
                                   workflowJSON, cleared)
       /\ UNCHANGED <<transport, workflowPathWidget>>

\* fetch() or graph.runNode() rejects, lines 25 / 111
CallRejects ==
    /\ awaitingFetch > 0
    /\ awaitingFetch' = awaitingFetch - 1
    /\ UNCHANGED awaitingJson
    /\ Catch

\* fetch() resolves with a response, lines 25-35
ResponseArrives(ok) ==
    /\ transport = "fetch"
    /\ awaitingFetch > 0
    /\ awaitingFetch' = awaitingFetch - 1
    /\ IF ~ok
       THEN /\ UNCHANGED awaitingJson
            /\ Catch
       ELSE /\ awaitingJson' = awaitingJson + 1
            /\ lastStep' = Step("parsing", <<"response.json">>, NoResponse, 0)
            /\ UNCHANGED <<transport, workflowPathWidget, refreshButtonWidget,
                           widgets, inputs>>

\* response.json() rejects, line 35
JsonRejects ==
    /\ transport = "fetch"
    /\ awaitingJson > 0
    /\ awaitingJson' = awaitingJson - 1
    /\ UNCHANGED awaitingFetch
    /\ Catch

\* response.json() resolves, lines 35-36 and 49
JsonResolves(workflowJSON) ==
    /\ transport = "fetch"
    /\ awaitingJson > 0
    /\ awaitingJson' = awaitingJson - 1
    /\ UNCHANGED awaitingFetch
    /\ ProcessWorkflowJSON(workflowJSON)

\* graph.runNode() resolves, lines 111-113 and 126
RunNodeResolves(result) ==
    /\ transport = "runNode"
    /\ awaitingFetch > 0
    /\ awaitingFetch' = awaitingFetch - 1
    /\ UNCHANGED awaitingJson
    /\ IF result.tag = "null"
       THEN Catch
       ELSE ProcessWorkflowJSON(result)

Next ==
    \/ \E v \in PathValues : SetPathValue(v)
    \/ UpdateDynamicInputs
    \/ CallRejects
    \/ \E ok \in BOOLEAN : ResponseArrives(ok)
    \/ JsonRejects
    \/ \E r \in SampleResponses : JsonResolves(r)
    \/ \E r \in SampleResponses : RunNodeResolves(r)

Spec == Init /\ [][Next]_vars

-----------------------------------------------------------------------------
(* The rebuild alone, over every response shape: one refresh is suspended  *)
(* at its last await and the data source answers.                          *)

\* widget lists a refresh can find: as defined, or left by an earlier refresh
FoundWidgets ==
    LET defined == {AddWidget(ws, ButtonEntry.type, ButtonEntry.name, ButtonEntry.value) :
                      ws \in DefinedWidgets(TRUE)}
    IN defined \cup
       {AddWidget(ws, "INT", WidgetName(<<"a">>, <<"c">>), JSNumber(3, 1)) : ws \in defined}

InitBuild ==
    /\ transport \in {"fetch", "runNode"}
    /\ workflowPathWidget = [found |-> TRUE, value |-> <<"/", "w">>]
    /\ refreshButtonWidget = LoadingName
    /\ widgets \in FoundWidgets
    /\ inputs = <<StaleInput, ImageInput>>
    /\ awaitingFetch = (IF transport = "runNode" THEN 1 ELSE 0)
    /\ awaitingJson = (IF transport = "fetch" THEN 1 ELSE 0)
    /\ lastStep = (IF transport = "fetch"
                   THEN Step("parsing", <<"response.json">>, NoResponse, 0)
                   ELSE Step("loading", <<"name = loading", DataSourceCall>>, NoResponse, 0))

NextBuild ==
    \/ \E r \in Responses : JsonResolves(r)
    \/ \E r \in Responses : RunNodeResolves(r)

SpecBuild == InitBuild /\ [][NextBuild]_vars

-----------------------------------------------------------------------------
(* Vocabulary of the properties *)

DynWidgets(ws) == SelectSeq(ws, IsDynamicWidget)
DynInputs(is) == SelectSeq(is, IsDynamicInput)

Occurrences(seq, x) == Cardinality({i \in DOMAIN seq : seq[i] = x})
Positions(seq, x) == {i \in DOMAIN seq : seq[i] = x}

\* a string, a number or a boolean
IsScalar(v) == v.tag \in {"number", "string", "boolean"}
\* num/den is a whole number
IsWhole(v) == \E m \in -(v.num * v.num)..(v.num * v.num) : v.num = m * v.den

\* the fields <<n, k>> of a response: key k of the inputs object of node n
Fields(r) ==
    UNION { { <<n, k>> : k \in DOMAIN r.nodes[n].node.inputs.entries } :
            n \in { m \in DOMAIN r.nodes : /\ r.nodes[m].node.tag = "object"
                                           /\ r.nodes[m].node.inputs.tag = "object" } }
FieldId(r, f) == r.nodes[f[1]].id
FieldKey(r, f) == r.nodes[f[1]].node.inputs.entries[f[2]].key
FieldValue(r, f) == r.nodes[f[1]].node.inputs.entries[f[2]].value
FieldName(r, f) == <<"d", "y", "n", "_">> \o FieldId(r, f) \o <<"_">> \o FieldKey(r, f)
ScalarFields(r) == {f \in Fields(r) : IsScalar(FieldValue(r, f))}

\* the kind of widget a scalar is to get
KindOf(v) ==
    CASE v.tag = "number" /\ IsWhole(v) -> "INT"
      [] v.tag = "number" /\ ~IsWhole(v) -> "FLOAT"
      [] v.tag = "boolean" -> "BOOLEAN"
      [] v.tag = "string" -> "STRING"
      [] OTHER -> "none"

Ended == lastStep.outcome \in {"success", "fetchFailed", "threw"}
Succeeded == lastStep.outcome = "success"

-----------------------------------------------------------------------------
(* Properties *)

\* C1: a step of the refresh handler taken while the workflow_path widget is
\* absent or its value is empty shows the missing-path alert and nothing
\* else: no data-source call is started, nothing is left awaiting, the
\* button keeps its label.
C1_MissingPathNoCall ==
    [][ ( /\ lastStep'.outcome \in {"missingPath", "loading"}
          /\ (~workflowPathWidget.found \/ workflowPathWidget.value = <<>>) )
        => ( /\ lastStep'.effects = <<MissingPathAlert>>
             /\ awaitingFetch' = awaitingFetch
             /\ awaitingJson' = awaitingJson
             /\ refreshButtonWidget' = refreshButtonWidget ) ]_vars

\* C1 witness: the handler ran with a workflow_path widget whose value is
\* empty while another refresh was suspended.
C1_Witness ==
    /\ lastStep.outcome = "missingPath"
    /\ workflowPathWidget.found
    /\ workflowPathWidget.value = <<>>
    /\ InFlight > 0

\* C2: no step of a refresh whose fetch fails changes this.widgets or
\* this.inputs; the failing step shows the error alert and sets the button
\* name to the idle text; a host call that returns nothing is such a failure.
C2_FailedFetchKeepsWidgets ==
    [][ /\ lastStep'.outcome \in {"loading", "parsing", "fetchFailed"}
           => (widgets' = widgets /\ inputs' = inputs)
        /\ lastStep'.outcome = "fetchFailed"
           => ( /\ refreshButtonWidget' = IdleName
                /\ Occurrences(lastStep'.effects, LoadErrorAlert) = 1
                /\ InFlight' = InFlight - 1 )
        /\ (lastStep'.outcome \in {"success", "threw"} /\ transport = "runNode")
           => lastStep'.response.tag # "null" ]_vars

\* C2 witness: a fetch failed while dynamic widgets of an earlier refresh exist.
C2_Witness ==
    /\ lastStep.outcome = "fetchFailed"
    /\ Len(DynWidgets(widgets)) > 0
    /\ refreshButtonWidget = IdleName

\* C3: after a successful refresh the widgets named dyn_... are as many as
\* the scalar fields of its response and each is named for one of them, and
\* no input named dyn_... is left: nothing from before the refresh survives.
C3_NoAccumulation ==
    Succeeded =>
        LET r == lastStep.response
            dyn == DynWidgets(widgets)
        IN /\ Len(dyn) = Cardinality(ScalarFields(r))
           /\ \A i \in DOMAIN dyn :
                \E f \in ScalarFields(r) : dyn[i].name = FieldName(r, f)
           /\ DynInputs(inputs) = <<>>

\* C3 witness: a successful refresh removed earlier dynamic widgets or
\* inputs and added widgets of its own.
C3_Witness ==
    /\ Succeeded
    /\ lastStep.cleared > 0
    /\ Len(DynWidgets(widgets)) > 0

\* C4: after a successful refresh, for every field of the response: a
\* scalar value has a widget, and every widget with the field's name and
\* value has the kind INT (whole number), FLOAT (other number), BOOLEAN or
\* STRING; a value that is no scalar has no widget.
C4_WidgetKinds ==
    Succeeded =>
        LET r == lastStep.response
            dyn == DynWidgets(widgets)
        IN \A f \in Fields(r) :
             LET mine == {i \in DOMAIN dyn : /\ dyn[i].name = FieldName(r, f)
                                             /\ dyn[i].value = FieldValue(r, f)}
             IN IF IsScalar(FieldValue(r, f))
                THEN /\ mine # {}
                     /\ \A i \in mine : dyn[i].type = KindOf(FieldValue(r, f))
                ELSE mine = {}

\* C4 witness: a successful refresh made an INT and a FLOAT widget.
C4_Witness ==
    /\ Succeeded
    /\ \E i, j \in DOMAIN widgets :
         /\ widgets[i].type = "INT" /\ IsDynamicWidget(widgets[i])
         /\ widgets[j].type = "FLOAT" /\ IsDynamicWidget(widgets[j])

\* dyn is the widget set of response r: as many widgets carry a given name
\* and value as r has scalar fields with that name and value, and there is
\* no other widget
IsWidgetSetOf(dyn, r) ==
    LET Same(i, f) == /\ dyn[i].name = FieldName(r, f)
                      /\ dyn[i].value = FieldValue(r, f)
    IN /\ \A f \in ScalarFields(r) :
            Cardinality({i \in DOMAIN dyn : Same(i, f)})
              = Cardinality({g \in ScalarFields(r) :
                               /\ FieldName(r, g) = FieldName(r, f)
                               /\ FieldValue(r, g) = FieldValue(r, f)})
       /\ \A i \in DOMAIN dyn : \E f \in ScalarFields(r) : Same(i, f)
       /\ Len(dyn) = Cardinality(ScalarFields(r))

\* C5: after a successful refresh with response R the dynamic widgets
\* correspond one to one to the scalar fields of R, each named
\* dyn_<node id>_<key> and carrying the field's value, and there is no other
\* dynamic widget; a node without inputs contributes none.
C5_OneWidgetPerScalarField ==
    Succeeded => IsWidgetSetOf(DynWidgets(widgets), lastStep.response)

\* C5 witness: a successful refresh whose response has a node without
\* inputs and a node with a scalar field.
C5_Witness ==
    /\ Succeeded
    /\ \E n \in DOMAIN lastStep.response.nodes :
         lastStep.response.nodes[n].node = ObjectNode(InputsUndefined)
    /\ Len(DynWidgets(widgets)) = 1

\* C6 (as claimed): when a refresh invocation has ended, in success or in a
\* failure of fetching, parsing or processing, the button name is the idle text.
C6_LabelRestoredWhenEnded ==
    Ended => refreshButtonWidget = IdleName

\* C7: the step that completes a successful refresh calls setDirtyCanvas
\* exactly once, after both filters, every addWidget and the assignment of
\* the idle name; no other step of the handler calls it.
C7_DirtyOnceAndLast ==
    LET e == lastStep.effects
        before == Positions(e, "widgets.filter") \cup Positions(e, "inputs.filter")
                  \cup Positions(e, "addWidget") \cup Positions(e, "name = idle")
    IN /\ Succeeded =>
            /\ Occurrences(e, "setDirtyCanvas") = 1
            /\ Occurrences(e, "widgets.filter") = 1
            /\ Occurrences(e, "name = idle") = 1
            /\ Occurrences(e, "addWidget") = Len(DynWidgets(widgets))
            /\ \A d \in Positions(e, "setDirtyCanvas") : \A b \in before : b < d
            /\ refreshButtonWidget = IdleName
       /\ lastStep.outcome \in {"missingPath", "loading", "parsing", "fetchFailed"}
            => Occurrences(e, "setDirtyCanvas") = 0

\* C7 witness: a successful refresh that added two widgets.
C7_Witness ==
    /\ Succeeded
    /\ Occurrences(lastStep.effects, "addWidget") = 2

\* C8 (as claimed): while a refresh awaits its data the button name is the
\* loading text; the name is the idle text only when none is in flight.
C8_LoadingWhileInFlight ==
    /\ InFlight > 0 => refreshButtonWidget = LoadingName
    /\ refreshButtonWidget = IdleName => InFlight = 0

\* C9 (as claimed): every step leaves the dynamic widgets as they were or
\* replaces them by the complete widget set of the response it processed.
C9_WholeSetsOnly ==
    [][ \/ DynWidgets(widgets') = DynWidgets(widgets)
        \/ /\ lastStep'.response.tag # "undefined"
           /\ IsWidgetSetOf(DynWidgets(widgets'), lastStep'.response)
      ]_vars

NoUnderscore(id) == \A i \in DOMAIN id : id[i] # "_"

====
